---- MODULE Spec2Model ----
(***************************************************************************)
(* Model of generateFileTree.py: main() validates the root argument, then  *)
(* walk_directory() walks the tree depth first, filters directories and    *)
(* files by name, and main() prints the collected {folder, name} records.  *)
(*                                                                         *)
(* Strings are sequences of one-character strings, so that lower(),        *)
(* replace('\\', '/'), split(os.sep), os.path.join, os.path.relpath and    *)
(* os.path.dirname are computed character by character as Python does on   *)
(* a POSIX platform (os.sep = "/").  The recursion of walk_directory is an *)
(* explicit stack of frames, one per active call.                          *)
(***************************************************************************)
EXTENDS Integers, Sequences, FiniteSets

\* ------------------------------------------------------------------ bounds
\* Largest number of entries (files and directories) below the scan root.
MaxNodes == 3
\* Largest number of directories whose os.listdir fails in one tree.
MaxFaults == 1

\* ----------------------------------------------------------------- strings
\* os.sep on POSIX
sep == "/"

\* The literal 'images' of lines 30 and 59.
IMAGES == <<"i", "m", "a", "g", "e", "s">>
\* The literal '.git' of line 34.
DOTGIT == <<".", "g", "i", "t">>

\* Entry names the trees are built from, in the order that numbers the
\* entries of one directory.
NameList ==
  << IMAGES,
     <<"I", "m", "a", "g", "e", "s">>,
     DOTGIT,
     <<".", "G", "I", "T">>,
     <<"i", "m", "a", "g", "e">>,
     <<"s", "u", "b">>,
     <<"i", "m", "a", "g", "e", "s", "\\", "b">> >>

Names == {NameList[k] : k \in 1..Len(NameList)}
Rank(nm) == CHOOSE k \in 1..Len(NameList) : NameList[k] = nm

\* Absolute path of the scan root, os.path.abspath(root_dir).
RootPath == <<"/", "r">>

\* str.lower(), one character (the upper-case letters of Names).
LowerChar(c) ==
  CASE c = "I" -> "i"
    [] c = "G" -> "g"
    [] c = "T" -> "t"
    [] OTHER -> c

\* str.lower()
Lower(s) == [k \in 1..Len(s) |-> LowerChar(s[k])]

\* str.replace('\\', '/')
ReplaceBackslash(s) == [k \in 1..Len(s) |-> IF s[k] = "\\" THEN "/" ELSE s[k]]

\* os.path.join(a, b) of posixpath, for b not starting with "/"
\* (an entry name never contains "/").
PathJoin(a, b) ==
  IF a = <<>> THEN b
  ELSE IF a[Len(a)] = sep THEN a \o b
  ELSE a \o <<sep>> \o b

\* Index of the last sep in s, 0 if there is none (str.rfind(sep) + 1).
RECURSIVE LastSep(_, _)
LastSep(s, k) ==
  IF k = 0 THEN 0
  ELSE IF s[k] = sep THEN k
  ELSE LastSep(s, k - 1)

\* os.path.dirname(p) of posixpath for a relative path: the head before the
\* last "/", and the empty string when p has no "/".
Dirname(p) ==
  LET i == LastSep(p, Len(p))
  IN  IF i = 0 THEN <<>> ELSE SubSeq(p, 1, i - 1)

\* str.split(os.sep): the segments between separators.
RECURSIVE SplitFrom(_, _, _)
SplitFrom(s, k, cur) ==
  IF k > Len(s) THEN <<cur>>
  ELSE IF s[k] = sep THEN <<cur>> \o SplitFrom(s, k + 1, <<>>)
  ELSE SplitFrom(s, k + 1, Append(cur, s[k]))

Split(s) == SplitFrom(s, 1, <<>>)

\* os.path.relpath(path, start) for a path that lies below start: the part
\* after start and the separator that follows it.
Relpath(path, start) == SubSeq(path, Len(start) + 2, Len(path))

SeqElems(s) == {s[k] : k \in 1..Len(s)}

\* ---------------------------------------------------------------- the tree
VARIABLES
  rootArg,   \* what sys.argv[1] names: "missing", "file" or "dir"
  n,         \* number of entries below the root; entry 0 is the root
  parent,    \* parent[c]: the directory that lists entry c
  kind,      \* kind[c]: "dir" or "file"
  name,      \* name[c]: the entry's base name
  ls,        \* ls[d]: what os.listdir(d) does
  pc,        \* position of main(): "start", "walk", "print", "exit"
  stack,     \* active calls of walk_directory, innermost last
  files,     \* main()'s variable files
  filesFrom, \* the entries the records of files were built from
  stdout,    \* what was printed to standard output, one element per print
  stderr,    \* the diagnostics, in order
  exitCode,  \* the process's exit code, -1 while running
  listing,   \* listing[d]: the order os.listdir(d) returned, <<>> before
  lists,     \* lists[d]: how often os.listdir(d) was called
  visits,    \* visits[c]: how often the for loop took entry c
  run,       \* number of the current scan of the tree
  prev       \* output and listing orders of the previous scan

treeVars == <<rootArg, n, parent, kind, name, ls>>
vars == <<rootArg, n, parent, kind, name, ls, pc, stack, files, filesFrom,
          stdout, stderr, exitCode, listing, lists, visits, run, prev>>

Outcomes == {"ok", "PermissionError", "FileNotFoundError", "OSError"}

\* The entries are numbered breadth first, the entries of one directory by
\* name: every tree has exactly one such numbering.  The numbers are
\* identities only; the order of a listing is chosen when it is listed.
ParentMaps(m) ==
  {p \in [1..m -> 0..m] :
     \A c \in 1..m : p[c] < c /\ (c > 1 => p[c - 1] <= p[c])}

KindMaps(m, p) ==
  {k \in [1..m -> {"dir", "file"}] :
     \A c \in 1..m : p[c] # 0 => k[p[c]] = "dir"}

\* Two entries of one directory never share a name.
NameMaps(m, p) ==
  {nm \in [1..m -> Names] :
     \A c, d \in 1..m : (c < d /\ p[c] = p[d]) => Rank(nm[c]) < Rank(nm[d])}

\* Only a directory is ever listed; at most MaxFaults listings fail.
LsMaps(m, k) ==
  {l \in [0..m -> Outcomes] :
     /\ \A c \in 1..m : k[c] = "file" => l[c] = "ok"
     /\ Cardinality({c \in 0..m : l[c] # "ok"}) <= MaxFaults}

Children(d) == {c \in 1..n : parent[c] = d}

Perms(S) ==
  {s \in [1..Cardinality(S) -> S] : \A a, b \in 1..Cardinality(S) : a # b => s[a] # s[b]}

\* os.path.isdir(item_path)
IsDir(c) == kind[c] = "dir"

\* ------------------------------------------------------------- predicates
\* should_skip_directory without the lower() of line 30.
should_skip_directory_exact_case(dir_name, base_path) ==
  IF dir_name = IMAGES THEN TRUE
  ELSE IF dir_name = DOTGIT THEN TRUE
  ELSE FALSE

should_skip_directory(dir_name, base_path) ==
  IF Lower(dir_name) = IMAGES THEN TRUE
  ELSE IF dir_name = DOTGIT THEN TRUE
  ELSE FALSE

should_include_file(file_path, root_dir) ==
  LET rel_path == Relpath(file_path, root_dir)
  IN  IF Dirname(rel_path) = <<".">> THEN FALSE
      ELSE IF IMAGES \in SeqElems(Split(rel_path)) THEN FALSE
      ELSE TRUE

\* ------------------------------------------------------------------- state
NoPrev == [out |-> <<>>, listing |-> <<>>]

Fresh ==
  /\ pc = "start"
  /\ stack = <<>>
  /\ files = <<>>
  /\ filesFrom = <<>>
  /\ stdout = <<>>
  /\ stderr = <<>>
  /\ exitCode = -1
  /\ listing = [d \in 0..n |-> <<>>]
  /\ lists = [d \in 0..n |-> 0]
  /\ visits = [c \in 1..n |-> 0]

Init ==
  /\ rootArg \in {"missing", "file", "dir"}
  /\ n \in 0..MaxNodes
  /\ rootArg # "dir" => n = 0
  /\ parent \in ParentMaps(n)
  /\ kind \in KindMaps(n, parent)
  /\ name \in NameMaps(n, parent)
  /\ ls \in LsMaps(n, kind)
  /\ rootArg # "dir" => ls[0] = "ok"
  /\ Fresh
  /\ run = 1
  /\ prev = NoPrev

\* A new call walk_directory(dir_path, base, root_dir), before line 81.
Frame(d, dir_path, base) ==
  [dir |-> d, dir_path |-> dir_path, base |-> base, at |-> "listdir",
   items |-> <<>>, i |-> 1, results |-> <<>>, from |-> <<>>]

Top == stack[Len(stack)]
Caller == stack[Len(stack) - 1]
SetTop(f) == [stack EXCEPT ![Len(stack)] = f]
Pop == SubSeq(stack, 1, Len(stack) - 1)


\* ReturnInto with line 101 putting the subtree's records in front of the
\* caller's instead of behind them.
ReturnIntoPrepend(res, frm) ==
  IF Len(stack) = 1
  THEN /\ stack' = <<>>
       /\ files' = res
       /\ filesFrom' = frm
       /\ pc' = "print"
  ELSE /\ stack' = [Pop EXCEPT ![Len(stack) - 1] =
                      [Caller EXCEPT !.results = res \o Caller.results,
                                     !.from = frm \o Caller.from,
                                     !.i = Caller.i + 1]]
       /\ UNCHANGED <<files, filesFrom, pc>>

\* ReturnInto with line 101 assigning the subtree's records to results
\* instead of extending results by them.
ReturnIntoAssign(res, frm) ==
  IF Len(stack) = 1
  THEN /\ stack' = <<>>
       /\ files' = res
       /\ filesFrom' = frm
       /\ pc' = "print"
  ELSE /\ stack' = [Pop EXCEPT ![Len(stack) - 1] =
                      [Caller EXCEPT !.results = res,
                                     !.from = frm,
                                     !.i = Caller.i + 1]]
       /\ UNCHANGED <<files, filesFrom, pc>>

\* The innermost call returns res (line 85, 88 or 118).  In a recursive call
\* the caller extends its results with it (line 101) and goes on to the next
\* entry; the call made by main() assigns files (line 138).
ReturnInto(res, frm) ==
  IF Len(stack) = 1
  THEN /\ stack' = <<>>
       /\ files' = res
       /\ filesFrom' = frm
       /\ pc' = "print"
  ELSE /\ stack' = [Pop EXCEPT ![Len(stack) - 1] =
                      [Caller EXCEPT !.results = Caller.results \o res,
                                     !.from = Caller.from \o frm,
                                     !.i = Caller.i + 1]]
       /\ UNCHANGED <<files, filesFrom, pc>>

\* ----------------------------------------------------------------- actions
\* lines 126-128: the root argument does not exist
MainMissing ==
  /\ pc = "start"
  /\ rootArg = "missing"
  /\ stderr' = Append(stderr, <<"root missing", 0>>)
  /\ exitCode' = 1
  /\ pc' = "exit"
  /\ UNCHANGED <<treeVars, stack, files, filesFrom, stdout, listing, lists,
                 visits, run, prev>>

\* lines 130-132: the root argument is not a directory
MainNotDir ==
  /\ pc = "start"
  /\ rootArg = "file"
  /\ stderr' = Append(stderr, <<"root not a directory", 0>>)
  /\ exitCode' = 1
  /\ pc' = "exit"
  /\ UNCHANGED <<treeVars, stack, files, filesFrom, stdout, listing, lists,
                 visits, run, prev>>

\* lines 135-138: main() calls walk_directory(root_dir, '', root_dir)
MainWalk ==
  /\ pc = "start"
  /\ rootArg = "dir"
  /\ pc' = "walk"
  /\ stack' = <<Frame(0, RootPath, <<>>)>>
  /\ UNCHANGED <<treeVars, files, filesFrom, stdout, stderr, exitCode,
                 listing, lists, visits, run, prev>>

\* line 82: os.listdir succeeds and returns the entries in some order
ListOk ==
  /\ pc = "walk"
  /\ Top.at = "listdir"
  /\ ls[Top.dir] = "ok"
  /\ \E items \in Perms(Children(Top.dir)) :
       /\ stack' = SetTop([Top EXCEPT !.items = items, !.at = "loop"])
       /\ listing' = [listing EXCEPT ![Top.dir] = items]
  /\ lists' = [lists EXCEPT ![Top.dir] = @ + 1]
  /\ UNCHANGED <<treeVars, pc, files, filesFrom, stdout, stderr, exitCode,
                 visits, run, prev>>

\* ListDenied with the handlers of lines 83-88 ending the process instead of
\* returning the empty results.
ListDeniedExits ==
  /\ pc = "walk"
  /\ Top.at = "listdir"
  /\ ls[Top.dir] \in {"PermissionError", "FileNotFoundError"}
  /\ stderr' = Append(stderr, <<ls[Top.dir], Top.dir>>)
  /\ lists' = [lists EXCEPT ![Top.dir] = @ + 1]
  /\ stack' = <<>>
  /\ exitCode' = 1
  /\ pc' = "exit"
  /\ UNCHANGED <<treeVars, files, filesFrom, stdout, listing, visits, run, prev>>

\* lines 83-88: os.listdir raises PermissionError or FileNotFoundError; the
\* call warns and returns its (empty) results
ListDenied ==
  /\ pc = "walk"
  /\ Top.at = "listdir"
  /\ ls[Top.dir] \in {"PermissionError", "FileNotFoundError"}
  /\ stderr' = Append(stderr, <<ls[Top.dir], Top.dir>>)
  /\ lists' = [lists EXCEPT ![Top.dir] = @ + 1]
  /\ ReturnInto(Top.results, Top.from)
  /\ UNCHANGED <<treeVars, stdout, exitCode, listing, visits, run, prev>>

\* ListRaise with the try of line 94 around the whole for loop instead of
\* inside it: the handler runs and the loop is over.
ListRaiseEndsLoop ==
  /\ pc = "walk"
  /\ Top.at = "listdir"
  /\ ls[Top.dir] = "OSError"
  /\ Len(stack) > 1
  /\ stderr' = Append(stderr, <<"OSError", Top.dir>>)
  /\ lists' = [lists EXCEPT ![Top.dir] = @ + 1]
  /\ stack' = [Pop EXCEPT ![Len(stack) - 1] =
                 [Caller EXCEPT !.i = Len(Caller.items) + 1]]
  /\ UNCHANGED <<treeVars, pc, files, filesFrom, stdout, exitCode, listing,
                 visits, run, prev>>

\* line 82 raises another OSError in a recursive call: nothing in the call
\* catches it, it leaves the call at line 101 of the caller and is caught at
\* line 115, which warns; the caller's loop goes on to the next entry
ListRaise ==
  /\ pc = "walk"
  /\ Top.at = "listdir"
  /\ ls[Top.dir] = "OSError"
  /\ Len(stack) > 1
  /\ stderr' = Append(stderr, <<"OSError", Top.dir>>)
  /\ lists' = [lists EXCEPT ![Top.dir] = @ + 1]
  /\ stack' = [Pop EXCEPT ![Len(stack) - 1] = [Caller EXCEPT !.i = Caller.i + 1]]
  /\ UNCHANGED <<treeVars, pc, files, filesFrom, stdout, exitCode, listing,
                 visits, run, prev>>

\* line 82 raises another OSError in the call made by main(): line 138 has no
\* handler, the interpreter prints the traceback and exits with code 1
ListRaiseRoot ==
  /\ pc = "walk"
  /\ Top.at = "listdir"
  /\ ls[Top.dir] = "OSError"
  /\ Len(stack) = 1
  /\ stderr' = Append(stderr, <<"Traceback", Top.dir>>)
  /\ lists' = [lists EXCEPT ![Top.dir] = @ + 1]
  /\ stack' = <<>>
  /\ exitCode' = 1
  /\ pc' = "exit"
  /\ UNCHANGED <<treeVars, files, filesFrom, stdout, listing, visits, run, prev>>

\* The for loop of line 90 is at an entry.
AtItem ==
  /\ pc = "walk"
  /\ Top.at = "loop"
  /\ Top.i <= Len(Top.items)

item == Top.items[Top.i]
item_path == PathJoin(Top.dir_path, name[item])
rel_path == ReplaceBackslash(PathJoin(Top.base, name[item]))

\* lines 95-98: a directory that should_skip_directory rejects
SkipDir ==
  /\ AtItem
  /\ IsDir(item)
  /\ should_skip_directory(name[item], Top.base)
  /\ stack' = SetTop([Top EXCEPT !.i = @ + 1])
  /\ visits' = [visits EXCEPT ![item] = @ + 1]
  /\ UNCHANGED <<treeVars, pc, files, filesFrom, stdout, stderr, exitCode,
                 listing, lists, run, prev>>

\* Recurse with line 101 passing dir_path instead of item_path: the call
\* walks the directory it came from.
RecurseSameDir ==
  /\ AtItem
  /\ IsDir(item)
  /\ ~should_skip_directory(name[item], Top.base)
  /\ stack' = Append(stack, Frame(Top.dir, Top.dir_path, rel_path))
  /\ visits' = [visits EXCEPT ![item] = @ + 1]
  /\ UNCHANGED <<treeVars, pc, files, filesFrom, stdout, stderr, exitCode,
                 listing, lists, run, prev>>

\* lines 95-101: any other directory is walked
Recurse ==
  /\ AtItem
  /\ IsDir(item)
  /\ ~should_skip_directory(name[item], Top.base)
  /\ stack' = Append(stack, Frame(item, item_path, rel_path))
  /\ visits' = [visits EXCEPT ![item] = @ + 1]
  /\ UNCHANGED <<treeVars, pc, files, filesFrom, stdout, stderr, exitCode,
                 listing, lists, run, prev>>

\* lines 102-105: a file that should_include_file rejects
ExcludeFile ==
  /\ AtItem
  /\ ~IsDir(item)
  /\ ~should_include_file(item_path, RootPath)
  /\ stack' = SetTop([Top EXCEPT !.i = @ + 1])
  /\ visits' = [visits EXCEPT ![item] = @ + 1]
  /\ UNCHANGED <<treeVars, pc, files, filesFrom, stdout, stderr, exitCode,
                 listing, lists, run, prev>>

\* lines 102-112: any other file is appended to results
EmitFile ==
  /\ AtItem
  /\ ~IsDir(item)
  /\ should_include_file(item_path, RootPath)
  /\ LET folder_path == ReplaceBackslash(Top.base)
     IN  stack' = SetTop([Top EXCEPT
           !.results = Append(@, [folder |-> folder_path, name |-> name[item]]),
           !.from = Append(@, item),
           !.i = @ + 1])
  /\ visits' = [visits EXCEPT ![item] = @ + 1]
  /\ UNCHANGED <<treeVars, pc, files, filesFrom, stdout, stderr, exitCode,
                 listing, lists, run, prev>>

\* line 118: the loop is over, the call returns results
Return ==
  /\ pc = "walk"
  /\ Top.at = "loop"
  /\ Top.i > Len(Top.items)
  /\ ReturnInto(Top.results, Top.from)
  /\ UNCHANGED <<treeVars, stdout, stderr, exitCode, listing, lists, visits,
                 run, prev>>

\* line 141: main() prints the list and the process ends with code 0
DumpJson ==
  /\ pc = "print"
  /\ stdout' = Append(stdout, files)
  /\ exitCode' = 0
  /\ pc' = "exit"
  /\ UNCHANGED <<treeVars, stack, files, filesFrom, stderr, listing, lists,
                 visits, run, prev>>

Next ==
  \/ MainMissing
  \/ MainNotDir
  \/ MainWalk
  \/ ListOk
  \/ ListDenied
  \/ ListRaise
  \/ ListRaiseRoot
  \/ SkipDir
  \/ Recurse
  \/ ExcludeFile
  \/ EmitFile
  \/ Return
  \/ DumpJson

Spec == Init /\ [][Next]_vars

\* main() is the only thread and nothing blocks it: it always takes its next
\* step.
FairSpec == Spec /\ WF_vars(Next)


\* A second scan of the same, unchanged tree once the first has ended.
Rescan ==
  /\ pc = "exit"
  /\ run = 1
  /\ run' = 2
  /\ prev' = [out |-> stdout, listing |-> listing]
  /\ pc' = "start"
  /\ stack' = <<>>
  /\ files' = <<>>
  /\ filesFrom' = <<>>
  /\ stdout' = <<>>
  /\ stderr' = <<>>
  /\ exitCode' = -1
  /\ listing' = [d \in 0..n |-> <<>>]
  /\ lists' = [d \in 0..n |-> 0]
  /\ visits' = [c \in 1..n |-> 0]
  /\ UNCHANGED treeVars

NextTwice == Next \/ Rescan

SpecTwice == Init /\ [][NextTwice]_vars

\* ------------------------------------------------- the tree, independently
\* Names of the entries on the way from the scan root down to c.
RECURSIVE PathNames(_)
PathNames(c) == IF c = 0 THEN <<>> ELSE Append(PathNames(parent[c]), name[c])

RECURSIVE JoinSlash(_)
JoinSlash(ns) ==
  IF ns = <<>> THEN <<>>
  ELSE IF Len(ns) = 1 THEN ns[1]
  ELSE ns[1] \o <<"/">> \o JoinSlash(Tail(ns))

\* The directories above c, the scan root (0) included.
RECURSIVE Ancestors(_)
Ancestors(c) == IF c = 0 THEN {} ELSE {parent[c]} \cup Ancestors(parent[c])

Subtree(x) == {c \in 1..n : c = x \/ x \in Ancestors(c)}
Depth(c) == Cardinality(Ancestors(c))
Count(s, x) == Cardinality({k \in 1..Len(s) : s[k] = x})

\* The naming rule of the directory filter, as the documentation states it.
NamedToSkip(d) == Lower(name[d]) = IMAGES \/ name[d] = DOTGIT

\* Every directory above c is listed without error and none is filtered out.
Walked(c) ==
  \A a \in Ancestors(c) : ls[a] = "ok" /\ (a # 0 => ~NamedToSkip(a))

\* The scan ended by printing its list.
Done == pc = "exit" /\ exitCode = 0
Output == stdout[1]
Denied == {"PermissionError", "FileNotFoundError"}
Warned(w) == \E k \in 1..Len(stderr) : stderr[k] = w


\* ------------------------------------------------------------------ claims
\* C1: every record of the output has a non-empty folder: a file that sits
\* directly in the scan root never produces a record.
C1_RootFilesNeverEmitted ==
  Done => \A k \in 1..Len(Output) :
            /\ Output[k].folder # <<>>
            /\ Depth(filesFrom[k]) >= 2

\* C2: no record's folder has a segment equal to "images", no file below a
\* directory named "images" (any case) or ".git" produces a record, and such
\* a directory is never listed.
C2_NoImagesNoGit ==
  /\ \A d \in 1..n : (IsDir(d) /\ NamedToSkip(d)) => lists[d] = 0
  /\ Done => \A k \in 1..Len(Output) :
               /\ IMAGES \notin SeqElems(Split(Output[k].folder))
               /\ \A a \in Ancestors(filesFrom[k]) \ {0} : ~NamedToSkip(a)

\* C3: a record's folder is the names of the directories from the scan root
\* to the file's parent joined with "/", its name is the entry's name, and
\* the base of every call of walk_directory is the joined path to dir_path.
C3_FolderIsRealLocation ==
  /\ \A j \in 1..Len(stack) :
       stack[j].base = JoinSlash(PathNames(stack[j].dir))
  /\ Done => \A k \in 1..Len(Output) :
               /\ Output[k].folder = JoinSlash(PathNames(parent[filesFrom[k]]))
               /\ Output[k].name = name[filesFrom[k]]

\* C5: a root argument that is missing or no directory ends the process with
\* code 1 after a diagnostic, without a walk and without output; in every
\* other case the walker runs and the list is written exactly once, followed
\* by exit code 0.
C5_ExitCodes ==
  pc = "exit" =>
    IF rootArg # "dir"
    THEN exitCode = 1 /\ stdout = <<>> /\ Len(stderr) = 1 /\ lists[0] = 0
    ELSE exitCode = 0 /\ Len(stdout) = 1 /\ lists[0] = 1


\* Entry c produced no record that is still held by a call or by main().
NoRecordFrom(S) ==
  /\ \A j \in 1..Len(stack) : SeqElems(stack[j].from) \cap S = {}
  /\ SeqElems(filesFrom) \cap S = {}

\* A file in a subdirectory that the walk can reach and the filters admit.
Reachable(f) ==
  kind[f] = "file" /\ Depth(f) >= 2 /\ Walked(f) /\ name[f] # IMAGES

\* C4: a listing that fails with PermissionError or FileNotFoundError warns
\* and cuts off that subtree only: no record comes from it, every file of the
\* readable directories is in the output, and the exit code is 0.
C4_DeniedListingCutsOnlyItsSubtree ==
  \A d \in 0..n :
    (lists[d] > 0 /\ ls[d] \in Denied) =>
      /\ Warned(<<ls[d], d>>)
      /\ NoRecordFrom(Subtree(d))
      /\ pc = "exit" =>
           /\ exitCode = 0
           /\ Len(stdout) = 1
           /\ Len(Output) = Len(filesFrom)
           /\ \A f \in 1..n : Reachable(f) => Count(filesFrom, f) = 1

C4_Witness ==
  /\ Done
  /\ \E d \in 1..n : ls[d] \in Denied /\ lists[d] = 1
  /\ \E k \in 1..Len(filesFrom) : Depth(filesFrom[k]) >= 2

\* C6: for entries x before y in one listing, every record of x (or of x's
\* subtree) precedes every record of y (or of y's subtree) in the output.
C6_ListingOrderDepthFirst ==
  Done =>
    \A d \in 0..n : \A i, j \in 1..Len(listing[d]) :
      i < j =>
        \A p, q \in 1..Len(filesFrom) :
          (/\ filesFrom[p] \in Subtree(listing[d][i])
           /\ filesFrom[q] \in Subtree(listing[d][j])) => p < q

C6_Witness ==
  /\ Done
  /\ \E d \in 0..n : \E i, j \in 1..Len(listing[d]) :
       /\ i < j
       /\ IsDir(listing[d][i])
       /\ SeqElems(filesFrom) \cap Subtree(listing[d][i]) # {}
       /\ SeqElems(filesFrom) \cap Subtree(listing[d][j]) # {}

\* The records printed, as a set.
RecordSet(out) == IF out = <<>> THEN {} ELSE SeqElems(out[1])

\* C7: two scans of the same tree print the same set of records whatever the
\* listing orders, and the same sequence when the listing orders agree.
C7_SameRecordsOnRescan ==
  (run = 2 /\ pc = "exit") =>
    /\ RecordSet(stdout) = RecordSet(prev.out)
    /\ exitCode = 0 <=> prev.out # <<>>
    /\ listing = prev.listing => stdout = prev.out

C7_Witness ==
  /\ run = 2
  /\ Done
  /\ listing # prev.listing
  /\ stdout # prev.out
  /\ Len(Output) >= 2

\* C8: an OSError that escapes the walk of an entry warns for that entry and
\* the caller's loop goes on: no record for the entry, the files found
\* before it are kept, every other entry of the listing is still taken.
C8_EntryErrorSkipsOnlyThatEntry ==
  \A d \in 1..n :
    (lists[d] > 0 /\ ls[d] = "OSError") =>
      /\ Warned(<<"OSError", d>>)
      /\ NoRecordFrom(Subtree(d))
      /\ pc = "exit" =>
           /\ Done
           /\ \A c \in Children(parent[d]) : visits[c] = 1
           /\ \A f \in 1..n : Reachable(f) => Count(filesFrom, f) = 1

C8_Witness ==
  /\ Done
  /\ \E d \in 1..n :
       /\ ls[d] = "OSError" /\ lists[d] = 1
       /\ \E k \in 1..Len(listing[parent[d]]) :
            /\ listing[parent[d]][k] = d
            /\ k < Len(listing[parent[d]])
       /\ Len(filesFrom) >= 1

\* C9: in a scan without errors a file in a subdirectory yields exactly one
\* record if no directory above it is named "images" (any case) or ".git"
\* and it is not itself named "images", and none otherwise; directories
\* named ".GIT" or "image" are walked; no entry yields two records.
C9_FilterRule ==
  (Done /\ \A d \in 0..n : ls[d] = "ok") =>
    /\ \A f \in 1..n :
         (kind[f] = "file" /\ Depth(f) >= 2) =>
           Count(filesFrom, f) =
             IF /\ \A a \in Ancestors(f) \ {0} : ~NamedToSkip(a)
                /\ name[f] # IMAGES
             THEN 1 ELSE 0
    /\ \A c \in 1..n : Count(filesFrom, c) <= 1
    /\ \A d \in 1..n :
         (/\ IsDir(d)
          /\ name[d] \in {<<".", "G", "I", "T">>, <<"i", "m", "a", "g", "e">>}
          /\ \A a \in Ancestors(d) \ {0} : ~NamedToSkip(a)) => lists[d] = 1

C9_Witness ==
  /\ Done
  /\ \A d \in 0..n : ls[d] = "ok"
  /\ \E f, g \in 1..n :
       /\ parent[f] = parent[g]
       /\ parent[f] # 0
       /\ name[parent[f]] = <<".", "G", "I", "T">>
       /\ name[f] = <<"I", "m", "a", "g", "e", "s">>
       /\ name[g] = IMAGES
       /\ kind[f] = "file" /\ kind[g] = "file"
       /\ Count(filesFrom, f) = 1
       /\ Count(filesFrom, g) = 0

\* C10: the scan terminates; no directory is listed twice, no entry is taken
\* twice, every entry of a listing is taken, and unless the root argument is
\* rejected or the listing of the root raises an error that no handler
\* catches the run ends with the list written.
C10_Terminates ==
  /\ <>(pc = "exit")
  /\ [](\A d \in 0..n : lists[d] <= 1)
  /\ [](\A c \in 1..n : visits[c] <= 1)
  /\ [](pc = "exit" =>
          /\ stack = <<>>
          /\ \A c \in 1..n :
               (lists[parent[c]] = 1 /\ ls[parent[c]] = "ok") => visits[c] = 1
          /\ (rootArg = "dir" /\ ls[0] # "OSError") => (Done /\ Len(stdout) = 1))

C10_Witness ==
  /\ Done
  /\ \E d \in 1..n : ls[d] # "ok" /\ lists[d] = 1
  /\ \E c \in 1..n : Depth(c) >= 2 /\ visits[c] = 1

====
